---- MODULE Spec2Model ----
(***************************************************************************)
(* sxg-rs: the per-request pipeline of http_server (src/http_server/src/   *)
(* main.rs) and the certificate-issuance helper of tools                   *)
(* (src/tools/src/linux_commands.rs).                                      *)
(*                                                                         *)
(* Text (URLs, request targets) is a sequence of tokens: a scheme, ":",    *)
(* "//", an authority, path and query pieces.  Formatting produces token   *)
(* sequences and parsing consumes them, so a format/parse round trip is    *)
(* computed, not assumed.                                                  *)
(***************************************************************************)
EXTENDS Integers, Sequences, FiniteSets, TLC

\* Number of request tasks (one per inbound request being served).
NumTasks == 2

Tasks == 1 .. NumTasks

\* Number of callers of the certificate-issuance helper.
NumCallers == 2

Callers == 1 .. NumCallers

---------------------------------------------------------------------------
(* Text, url::Url and http::Uri                                            *)

Schemes == {"https", "http"}

\* WORKER.config().html_host: the signed-domain host.
HtmlHost == "pub.example"

\* Authorities the url crate accepts as a host[:port].
UrlHosts == {"pub.example", "backend.example", "evil.example"}

\* Authorities http::Uri accepts; the port of the last one is out of range,
\* which http::Uri does not look at and url::Url rejects.
UriAuthorities == UrlHosts \cup {"evil.example:99999"}

\* Pieces of a path-and-query.
PathPieces == {"/articles/foo", "/missing", "?q=1"}

\* A url::Url: always absolute.  NoUrl stands for a failed parse.
NoUrl == [scheme |-> "", authority |-> "", path |-> <<>>]

\* An http::Uri: scheme and authority may be absent ("").  NoUri stands for
\* a failed parse.
NoUri == [scheme |-> "?", authority |-> "?", path |-> <<>>]

Tail2(s) == SubSeq(s, 3, Len(s))

Tail4(s) == SubSeq(s, 5, Len(s))

\* impl Display for url::Url: the serialization scheme://authority/path?query.
UrlDisplay(u) == <<u.scheme, ":", "//", u.authority>> \o u.path

\* url::Url::parse: an absolute URL with a special scheme and a valid host.
UrlParse(text) ==
    IF /\ Len(text) >= 4
       /\ text[1] \in Schemes /\ text[2] = ":" /\ text[3] = "//"
       /\ text[4] \in UrlHosts
    THEN [scheme |-> text[1], authority |-> text[4],
          path |-> IF Len(text) = 4 THEN <<"/">> ELSE Tail4(text)]
    ELSE NoUrl

\* url::Url::join: resolves a reference against a base (RFC 3986 section 5.2):
\* an absolute reference replaces the base, a reference starting with "//"
\* keeps only the base's scheme, a path reference keeps scheme and authority.
UrlJoin(base, text) ==
    IF base = NoUrl THEN NoUrl
    ELSE IF Len(text) = 0 THEN base
    ELSE IF text[1] \in Schemes THEN UrlParse(text)
    ELSE IF text[1] = "//" THEN
        IF Len(text) >= 2 /\ text[2] \in UrlHosts
        THEN [scheme |-> base.scheme, authority |-> text[2],
              path |-> IF Len(text) = 2 THEN <<"/">> ELSE Tail2(text)]
        ELSE NoUrl
    ELSE IF text[1] \in PathPieces
    THEN [scheme |-> base.scheme, authority |-> base.authority, path |-> text]
    ELSE NoUrl

\* impl FromStr for http::Uri: a text starting with "/" is a path-and-query
\* only (a leading "//" included); otherwise scheme://authority and a path.
UriFromStr(text) ==
    IF Len(text) = 0 THEN NoUri
    ELSE IF text[1] \in PathPieces \cup {"//", "/"}
    THEN [scheme |-> "", authority |-> "", path |-> text]
    ELSE IF /\ Len(text) >= 4
            /\ text[1] \in Schemes /\ text[2] = ":" /\ text[3] = "//"
            /\ text[4] \in UriAuthorities
    THEN [scheme |-> text[1], authority |-> text[4],
          path |-> IF Len(text) = 4 THEN <<"/">> ELSE Tail4(text)]
    ELSE NoUri

\* impl Display for http::Uri: "scheme://" if any, the authority if any, then
\* the path and query.
UriDisplay(u) ==
    (IF u.scheme # "" THEN <<u.scheme, ":", "//">> ELSE <<>>)
    \o (IF u.authority # "" THEN <<u.authority>> ELSE <<>>)
    \o u.path

---------------------------------------------------------------------------
(* Requests, responses and results                                         *)

\* Request targets as they arrive on the wire; hyper parses each into
\* req.uri(): an origin-form path, a path with a query, a path that starts
\* with "//", and two absolute-form targets.
RequestTargets ==
    { <<"/articles/foo">>,
      <<"/missing", "?q=1">>,
      <<"//", "evil.example", "/articles/foo">>,
      <<"http", ":", "//", "evil.example", "/articles/foo">>,
      <<"https", ":", "//", "evil.example:99999", "/missing">> }

Methods == {"GET", "POST", "PUT"}

\* Values of the --backend argument: two origins and a string url::Url
\* cannot parse.
Backends ==
    { <<"https", ":", "//", "backend.example">>,
      <<"http", ":", "//", "backend.example">>,
      <<"backend.example">> }

ClientIps == {"198.51.100.7"}

\* create_signed_exchange's parameters; NoParams: no call was made.
NoParams ==
    [payload_body |-> <<>>, payload_headers |-> "", skip_process_link |-> TRUE,
     status_code |-> 0, fallback_url |-> <<>>, cert_origin |-> <<>>]

\* A body: its bytes as text pieces and, for a signed exchange, what it
\* wraps.
PlainBody(text) == [text |-> text, sxg |-> NoParams]

\* sxg_rs::http::HttpResponse
HttpResponse(status, headers, body) ==
    [status |-> status, headers |-> headers, body |-> body]

\* hyper::Response<Body>; stream says how the body arrives: "buffered"
\* (Body::from a Vec), "stream" or "reset" (the stream fails when read).
Response(status, headers, body, stream) ==
    [status |-> status, headers |-> headers, body |-> body, stream |-> stream]

NoResponse == Response(0, "", PlainBody(<<>>), "")

\* anyhow::Result<Response<Body>>
Ok(response) == [ok |-> TRUE, response |-> response, err |-> <<>>]

Err(e) == [ok |-> FALSE, response |-> NoResponse, err |-> e]

NoResult == [ok |-> FALSE, response |-> NoResponse, err |-> <<"pending">>]

\* What WORKER.serve_preset_content may answer.
PresetResponses ==
    { HttpResponse(200, "utf8", PlainBody(<<"cert-chain">>)),
      HttpResponse(404, "utf8", PlainBody(<<"unknown certificate">>)),
      HttpResponse(0, "utf8", PlainBody(<<"cert-chain">>)) }

PresetPayloads ==
    { HttpResponse(200, "utf8", PlainBody(<<"preset-page">>)),
      HttpResponse(0, "utf8", PlainBody(<<"preset-page">>)) }

\* What the backend may answer through PROXY_CLIENT.call.
BackendResponses ==
    { Response(200, "utf8", PlainBody(<<"article">>), "stream"),
      Response(404, "utf8", PlainBody(<<"no such page">>), "stream"),
      Response(301, "utf8", PlainBody(<<"moved">>), "stream"),
      Response(200, "non-utf8", PlainBody(<<"article">>), "stream"),
      Response(200, "utf8", PlainBody(<<"article">>), "reset") }

NoPreset == [kind |-> "", url |-> <<>>, response |-> HttpResponse(0, "", PlainBody(<<>>))]

NoProxyCall ==
    [client_ip |-> "", forward_url |-> <<>>, method |-> "", uri |-> NoUri,
     headers |-> <<>>, body |-> "", outcome |-> ""]

\* TryFrom<HttpResponse> for Response<Vec<u8>>: the status must be a valid
\* http::StatusCode.
ValidStatus(status) == status \in 100 .. 999

\* Response<Vec<u8>>::map(Body::from)
FromHttpResponse(r) == Response(r.status, r.headers, r.body, "buffered")

\* WORKER.get_fallback_url: path and query kept, the authority replaced by
\* the signed-domain host.
GetFallbackUrl(w, original_url) ==
    [original_url EXCEPT !.authority = w.html_host]

---------------------------------------------------------------------------
(* handle, generate_sxg_response and handle_or_error as functions          *)

\* handle: the canonical request URL.
CanonicalRequestUrl(w, uri) ==
    UrlJoin(UrlParse(<<"https", ":", "//", w.html_host, "/">>), UriDisplay(uri))

\* DirectResult with the status set by the dispatcher instead of kept.
DirectResult_Status200(response) ==
    IF ValidStatus(response.status)
    THEN Ok(Response(200, response.headers, response.body, "buffered"))
    ELSE Err(<<"invalid status code">>)

\* handle, Direct: the resolver's response converted and returned.
DirectResult(response) ==
    IF ValidStatus(response.status)
    THEN Ok(FromHttpResponse(response))
    ELSE Err(<<"invalid status code">>)

\* handle, None: the backend URL.
BackendUrl(b, uri) == UrlJoin(UrlParse(b), UriDisplay(uri))

\* NoneFallbackUrl without the Origin Resolver: the backend URL itself.
NoneFallbackUrl_BackendUrl(w, backend_url) ==
    UriFromStr(UrlDisplay(backend_url))

\* handle, None: the fallback URL from the Origin Resolver, as an http::Uri.
NoneFallbackUrl(w, backend_url) ==
    UriFromStr(UrlDisplay(GetFallbackUrl(w, backend_url)))

\* ProxyCall with the request's own headers instead of the filtered ones.
ProxyCall_RawHeaders(ip, b, request, req_headers) ==
    [client_ip |-> ip, forward_url |-> b, method |-> request.method,
     uri |-> UriFromStr(UriDisplay(request.uri)), headers |-> <<request.headers>>,
     body |-> request.body, outcome |-> "pending"]

\* handle, None: the request handed to PROXY_CLIENT.call.
ProxyCall(ip, b, request, req_headers) ==
    [client_ip |-> ip, forward_url |-> b, method |-> request.method,
     uri |-> UriFromStr(UriDisplay(request.uri)), headers |-> req_headers,
     body |-> request.body, outcome |-> "pending"]

\* PROXY_CLIENT.call: the URL fetched for a call is the forward URL followed
\* by the path and query of the request's URI; the URI's scheme and
\* authority are not used.
ForwardUri(c) == c.forward_url \o c.uri.path

\* handle: an error of PROXY_CLIENT.call, rendered into an anyhow error.
ProxyError(e) == <<"{:?}", e>>

\* FallbackUrlError accepting every URL.
FallbackUrlError_Unchecked(url) == <<>>

\* generate_sxg_response: the error of deriving the certificate origin from
\* a fallback URL without scheme or without authority; <<>> if there is none.
FallbackUrlError(url) ==
    IF url.scheme = "" THEN <<"fallback url missing scheme">>
    ELSE IF url.authority = "" THEN <<"fallback url missing authority">>
    ELSE <<>>

\* CertOrigin with the scheme written out instead of read from the URL.
CertOrigin_Https(url) == <<"https", ":", "//", url.authority>>

\* generate_sxg_response: "scheme://authority" of the fallback URL.
CertOrigin(url) == <<url.scheme, ":", "//", url.authority>>

\* SignParams with the payload's own status passed on.
SignParams_PayloadStatus(payload, payload_headers, url) ==
    [payload_body |-> payload.body.text,
     payload_headers |-> payload_headers,
     skip_process_link |-> FALSE,
     status_code |-> payload.status,
     fallback_url |-> UriDisplay(url),
     cert_origin |-> CertOrigin(url)]

\* generate_sxg_response: the parameters of create_signed_exchange.
SignParams(payload, payload_headers, url) ==
    [payload_body |-> payload.body.text,
     payload_headers |-> payload_headers,
     skip_process_link |-> FALSE,
     status_code |-> 200,
     fallback_url |-> UriDisplay(url),
     cert_origin |-> CertOrigin(url)]

\* The signed exchange create_signed_exchange returns for its parameters,
\* converted to the response of generate_sxg_response.
SxgResult(params) ==
    Ok(Response(200, "application/signed-exchange;v=b3",
                [text |-> <<"sxg1-b3">>, sxg |-> params], "buffered"))

\* HandleOrError answering 502 Bad Gateway instead of 500.
HandleOrError_BadGateway(res) ==
    IF res.ok THEN res.response
    ELSE Response(502, "", PlainBody(<<"{:?}">> \o res.err), "buffered")

\* handle_or_error: an error becomes a 500 whose body is its debug rendering.
HandleOrError(res) ==
    IF res.ok THEN res.response
    ELSE Response(500, "", PlainBody(<<"{:?}">> \o res.err), "buffered")

---------------------------------------------------------------------------
(* State                                                                   *)

VARIABLES
    worker,        \* WORKER: the signing worker, read-only once initialised
    pc,            \* per task: where its handler is suspended
    client_ip,     \* per task: handle's client_ip
    req,           \* per task: handle's req
    backend,       \* per task: handle's backend
    req_url,       \* per task: handle's req_url
    preset,        \* per task: what serve_preset_content returned
    fallback_url,  \* per task: handle's fallback_url
    sxg_payload,   \* per task: handle's sxg_payload
    calls,         \* per task: the collaborator calls made so far, in order
    proxy_call,    \* per task: the arguments of PROXY_CLIENT.call
    sign_call,     \* per task: the parameters of create_signed_exchange
    result,        \* per task: what handle returned
    response,      \* per task: what handle_or_error returned to the client
    fs,            \* the file system: the contents of each path
    cmd_pc,        \* per caller: where its call of the helper stands
    cmd_call,      \* per caller: the function called and its output path
    cmd_before,    \* per caller: the output path's contents when called
    cmd_out,       \* per caller: the command's exit status and stdout
    cmd_ret        \* per caller: what the call returned

inputs == <<client_ip, req, backend>>

locals == <<req_url, preset, fallback_url, sxg_payload>>

outcome == <<result, response>>

serverVars ==
    <<worker, pc, client_ip, req, backend, req_url, preset, fallback_url,
      sxg_payload, calls, proxy_call, sign_call, result, response>>

toolVars == <<fs, cmd_pc, cmd_call, cmd_before, cmd_out, cmd_ret>>

vars == <<serverVars, toolVars>>

\* The paths the helper is asked to write, and what a path may hold: NoFile
\* (it does not exist), nothing, or one of two PEM texts.
Paths == {"privkey.pem", "cert.csr", "cert.pem"}

NoFile == "(no file)"

PemTexts == {"pem-a", "pem-b"}

NoCall == [op |-> "", output_file |-> ""]

NoOutput == [spawned |-> FALSE, success |-> FALSE, stdout |-> ""]

NoReturn == [ok |-> FALSE, value |-> "", err |-> "pending"]

NoRequest == [uri |-> NoUri, method |-> "", headers |-> "", body |-> ""]

\* lazy_static WORKER: its configuration, and whether its private key
\* yields a signer (create_rust_signer reads nothing else).
Init ==
    /\ worker \in [html_host : {HtmlHost}, signer_ok : BOOLEAN]
    /\ pc = [t \in Tasks |-> "idle"]
    /\ client_ip = [t \in Tasks |-> ""]
    /\ req = [t \in Tasks |-> NoRequest]
    /\ backend = [t \in Tasks |-> <<>>]
    /\ req_url = [t \in Tasks |-> NoUrl]
    /\ preset = [t \in Tasks |-> NoPreset]
    /\ fallback_url = [t \in Tasks |-> NoUri]
    /\ sxg_payload = [t \in Tasks |-> NoResponse]
    /\ calls = [t \in Tasks |-> <<>>]
    /\ proxy_call = [t \in Tasks |-> NoProxyCall]
    /\ sign_call = [t \in Tasks |-> NoParams]
    /\ result = [t \in Tasks |-> NoResult]
    /\ response = [t \in Tasks |-> NoResponse]
    /\ fs = [p \in Paths |-> NoFile]
    /\ cmd_pc = [c \in Callers |-> "idle"]
    /\ cmd_call = [c \in Callers |-> NoCall]
    /\ cmd_before = [c \in Callers |-> NoFile]
    /\ cmd_out = [c \in Callers |-> NoOutput]
    /\ cmd_ret = [c \in Callers |-> NoReturn]

Goto(t, label) == pc' = [pc EXCEPT ![t] = label]

Call(t, name) == calls' = [calls EXCEPT ![t] = Append(@, name)]

\* Return keeping the outcome in one slot shared by all the tasks.
Return_Shared(t, res) ==
    /\ result' = [u \in Tasks |-> res]
    /\ response' = [u \in Tasks |-> HandleOrError(res)]
    /\ Goto(t, "done")

\* handle returns res; handle_or_error turns it into the response.
Return(t, res) ==
    /\ result' = [result EXCEPT ![t] = res]
    /\ response' = [response EXCEPT ![t] = HandleOrError(res)]
    /\ Goto(t, "done")

---------------------------------------------------------------------------
(* The request handler, one action per stretch between two awaits          *)

\* main: service_fn hands a request of the connection to handle_or_error.
AcceptFrom(t, targets, methods, backends) ==
    /\ pc[t] = "idle"
    /\ \E target \in targets, m \in methods, b \in backends,
          ip \in ClientIps :
        /\ req' = [req EXCEPT ![t] =
                     [uri |-> UriFromStr(target), method |-> m,
                      headers |-> "client-headers", body |-> "request-body"]]
        /\ backend' = [backend EXCEPT ![t] = b]
        /\ client_ip' = [client_ip EXCEPT ![t] = ip]
    /\ Goto(t, "handle")
    /\ UNCHANGED <<toolVars, worker, locals, calls, proxy_call, sign_call, outcome>>

Accept(t) == AcceptFrom(t, RequestTargets, Methods, Backends)

\* HandleStart resolving the fallback URL before the preset lookup.
HandleStart_ResolveFirst(t) ==
    /\ pc[t] = "handle"
    /\ IF CanonicalRequestUrl(worker, req[t].uri) = NoUrl
       THEN /\ Return(t, Err(<<"url parse error">>))
            /\ UNCHANGED <<req_url, calls>>
       ELSE /\ req_url' = [req_url EXCEPT ![t] =
                  CanonicalRequestUrl(worker, req[t].uri)]
            /\ calls' = [calls EXCEPT ![t] =
                  @ \o <<"get_fallback_url", "serve_preset_content">>]
            /\ Goto(t, "preset")
            /\ UNCHANGED outcome
    /\ UNCHANGED <<toolVars, worker, inputs, preset, fallback_url, sxg_payload,
                   proxy_call, sign_call>>

\* handle: the canonical URL, then the call of serve_preset_content.
HandleStart(t) ==
    /\ pc[t] = "handle"
    /\ IF CanonicalRequestUrl(worker, req[t].uri) = NoUrl
       THEN /\ Return(t, Err(<<"url parse error">>))
            /\ UNCHANGED <<req_url, calls>>
       ELSE /\ req_url' = [req_url EXCEPT ![t] =
                  CanonicalRequestUrl(worker, req[t].uri)]
            /\ Call(t, "serve_preset_content")
            /\ Goto(t, "preset")
            /\ UNCHANGED outcome
    /\ UNCHANGED <<toolVars, worker, inputs, preset, fallback_url, sxg_payload,
                   proxy_call, sign_call>>

\* PresetDirect without its return: the Direct response goes on to
\* generate_sxg_response as the other two branches do.
PresetDirect_FallThrough(t) ==
    /\ pc[t] = "preset"
    /\ worker.signer_ok
    /\ \E r \in PresetResponses :
        /\ preset' = [preset EXCEPT ![t] =
                        [kind |-> "Direct", url |-> <<>>, response |-> r]]
        /\ sxg_payload' = [sxg_payload EXCEPT ![t] = FromHttpResponse(r)]
        /\ fallback_url' = [fallback_url EXCEPT ![t] =
                              UriFromStr(UrlDisplay(req_url[t]))]
    /\ Goto(t, "gen_sxg")
    /\ UNCHANGED <<toolVars, worker, inputs, req_url, calls, proxy_call,
                   sign_call, outcome>>

\* serve_preset_content returns Direct: handle returns its response.
PresetDirect(t) ==
    /\ pc[t] = "preset"
    /\ worker.signer_ok
    /\ \E r \in PresetResponses :
        /\ preset' = [preset EXCEPT ![t] =
                        [kind |-> "Direct", url |-> <<>>, response |-> r]]
        /\ Return(t, DirectResult(r))
    /\ UNCHANGED <<toolVars, worker, inputs, req_url, fallback_url, sxg_payload,
                   calls, proxy_call, sign_call>>

\* The URLs a ToBeSigned answer may carry: the canonical URL, a path without
\* scheme and authority, and a string http::Uri cannot parse.
PresetUrls(t) ==
    { UrlDisplay(req_url[t]),
      <<"/articles/foo">>,
      <<>> }

\* serve_preset_content returns ToBeSigned: fallback URL and payload are the
\* resolver's; handle goes on to read the request.
PresetToBeSigned(t) ==
    /\ pc[t] = "preset"
    /\ worker.signer_ok
    /\ \E url \in PresetUrls(t), payload \in PresetPayloads :
        /\ preset' = [preset EXCEPT ![t] =
                        [kind |-> "ToBeSigned", url |-> url, response |-> payload]]
        /\ IF UriFromStr(url) = NoUri
           THEN /\ Return(t, Err(<<"invalid uri">>))
                /\ UNCHANGED <<fallback_url, sxg_payload>>
           ELSE /\ fallback_url' = [fallback_url EXCEPT ![t] = UriFromStr(url)]
                /\ IF ~ValidStatus(payload.status)
                   THEN /\ Return(t, Err(<<"invalid status code">>))
                        /\ UNCHANGED sxg_payload
                   ELSE /\ sxg_payload' = [sxg_payload EXCEPT ![t] =
                                             FromHttpResponse(payload)]
                        /\ Goto(t, "tbs_body")
                        /\ UNCHANGED outcome
    /\ UNCHANGED <<toolVars, worker, inputs, req_url, calls, proxy_call, sign_call>>

\* serve_preset_content returns None (the resolver has nothing for the URL,
\* or no signer could be created): handle derives the backend URL and the
\* fallback URL and goes on to read the request.
PresetNone(t) ==
    /\ pc[t] = "preset"
    /\ preset' = [preset EXCEPT ![t] = [NoPreset EXCEPT !.kind = "None"]]
    /\ IF BackendUrl(backend[t], req[t].uri) = NoUrl
       THEN /\ Return(t, Err(<<"url parse error">>))
            /\ UNCHANGED <<fallback_url, calls>>
       ELSE /\ Call(t, "get_fallback_url")
            /\ \E resolved \in BOOLEAN :
                IF ~resolved
                THEN /\ Return(t, Err(<<"Failed to set html_host">>))
                     /\ UNCHANGED fallback_url
                ELSE IF NoneFallbackUrl(worker, BackendUrl(backend[t], req[t].uri)) = NoUri
                THEN /\ Return(t, Err(<<"invalid uri">>))
                     /\ UNCHANGED fallback_url
                ELSE /\ fallback_url' = [fallback_url EXCEPT ![t] =
                            NoneFallbackUrl(worker, BackendUrl(backend[t], req[t].uri))]
                     /\ Goto(t, "none_body")
                     /\ UNCHANGED outcome
    /\ UNCHANGED <<toolVars, worker, inputs, req_url, sxg_payload, proxy_call,
                   sign_call>>

\* TryFrom<Request<Vec<u8>>> for HttpRequest: sxg_rs::http::Method has only
\* Get and Post.
KnownMethod(m) == m \in {"GET", "POST"}

\* WORKER.transform_request_headers, when it accepts the headers.
TransformRequestHeaders(headers, filter) == <<filter, headers>>

\* WORKER.transform_payload_headers, when it accepts the headers.
TransformPayloadHeaders(headers) == <<"signable", headers>>

\* TbsBodyRead going on to generate_sxg_response without reading, converting
\* or validating the request.
TbsBodyRead_Unchecked(t) ==
    /\ pc[t] = "tbs_body"
    /\ Goto(t, "gen_sxg")
    /\ UNCHANGED <<toolVars, worker, inputs, locals, calls, proxy_call,
                   sign_call, outcome>>

\* handle, ToBeSigned: the request is buffered and converted, and its headers
\* are validated with AcceptsSxg; then generate_sxg_response is entered.
TbsBodyRead(t) ==
    /\ pc[t] = "tbs_body"
    /\ \E read_ok \in BOOLEAN, accepted \in BOOLEAN :
        IF ~read_ok
        THEN /\ Return(t, Err(<<"error reading a body from connection">>))
             /\ UNCHANGED calls
        ELSE IF ~KnownMethod(req[t].method)
        THEN /\ Return(t, Err(<<"unsupported method">>))
             /\ UNCHANGED calls
        ELSE /\ Call(t, "transform_request_headers(AcceptsSxg)")
             /\ IF ~accepted
                THEN Return(t, Err(<<"invalid request headers">>))
                ELSE Goto(t, "gen_sxg") /\ UNCHANGED outcome
    /\ UNCHANGED <<toolVars, worker, inputs, locals, proxy_call, sign_call>>

\* NoneBodyRead forwarding whatever method the request has.
NoneBodyRead_AnyMethod(t) ==
    /\ pc[t] = "none_body"
    /\ \E read_ok \in BOOLEAN, accepted \in BOOLEAN :
        IF ~read_ok
        THEN /\ Return(t, Err(<<"error reading a body from connection">>))
             /\ UNCHANGED <<calls, proxy_call>>
        ELSE IF ~accepted
        THEN /\ Call(t, "transform_request_headers(PrefersSxg)")
             /\ Return(t, Err(<<"invalid request headers">>))
             /\ UNCHANGED proxy_call
        ELSE /\ calls' = [calls EXCEPT ![t] =
                   @ \o <<"transform_request_headers(PrefersSxg)", "proxy_call">>]
             /\ proxy_call' = [proxy_call EXCEPT ![t] =
                   ProxyCall(client_ip[t], backend[t], req[t],
                       TransformRequestHeaders(req[t].headers, "PrefersSxg"))]
             /\ Goto(t, "backend")
             /\ UNCHANGED outcome
    /\ UNCHANGED <<toolVars, worker, inputs, locals, sign_call>>

\* handle, None: the request is buffered and converted, its headers are
\* filtered with PrefersSxg, and the backend request is built and sent.
NoneBodyRead(t) ==
    /\ pc[t] = "none_body"
    /\ \E read_ok \in BOOLEAN, accepted \in BOOLEAN :
        IF ~read_ok
        THEN /\ Return(t, Err(<<"error reading a body from connection">>))
             /\ UNCHANGED <<calls, proxy_call>>
        ELSE IF ~KnownMethod(req[t].method)
        THEN /\ Return(t, Err(<<"unsupported method">>))
             /\ UNCHANGED <<calls, proxy_call>>
        ELSE IF ~accepted
        THEN /\ Call(t, "transform_request_headers(PrefersSxg)")
             /\ Return(t, Err(<<"invalid request headers">>))
             /\ UNCHANGED proxy_call
        ELSE LET c == ProxyCall(client_ip[t], backend[t], req[t],
                          TransformRequestHeaders(req[t].headers, "PrefersSxg"))
             IN  IF c.uri = NoUri
                 THEN /\ Call(t, "transform_request_headers(PrefersSxg)")
                      /\ Return(t, Err(<<"invalid uri">>))
                      /\ UNCHANGED proxy_call
                 ELSE /\ calls' = [calls EXCEPT ![t] =
                            @ \o <<"transform_request_headers(PrefersSxg)",
                                   "proxy_call">>]
                      /\ proxy_call' = [proxy_call EXCEPT ![t] = c]
                      /\ Goto(t, "backend")
                      /\ UNCHANGED outcome
    /\ UNCHANGED <<toolVars, worker, inputs, locals, sign_call>>

\* BackendResponds signing an empty payload when the backend call failed.
BackendResponds_SignAnyway(t) ==
    /\ pc[t] = "backend"
    /\ \/ /\ \E r \in BackendResponses :
                sxg_payload' = [sxg_payload EXCEPT ![t] = r]
          /\ proxy_call' = [proxy_call EXCEPT ![t].outcome = "response"]
          /\ Goto(t, "gen_sxg")
          /\ UNCHANGED outcome
       \/ /\ proxy_call' = [proxy_call EXCEPT ![t].outcome = "error"]
          /\ sxg_payload' = [sxg_payload EXCEPT ![t] =
                Response(502, "utf8", PlainBody(<<>>), "buffered")]
          /\ Goto(t, "gen_sxg")
          /\ UNCHANGED outcome
    /\ UNCHANGED <<toolVars, worker, inputs, req_url, preset, fallback_url, calls,
                   sign_call>>

\* handle, None: PROXY_CLIENT.call completes with the backend's response or
\* with an error; the response becomes the payload to sign.
BackendResponds(t) ==
    /\ pc[t] = "backend"
    /\ \/ /\ \E r \in BackendResponses :
                sxg_payload' = [sxg_payload EXCEPT ![t] = r]
          /\ proxy_call' = [proxy_call EXCEPT ![t].outcome = "response"]
          /\ Goto(t, "gen_sxg")
          /\ UNCHANGED outcome
       \/ /\ proxy_call' = [proxy_call EXCEPT ![t].outcome = "error"]
          /\ Return(t, Err(ProxyError("connection reset")))
          /\ UNCHANGED sxg_payload
    /\ UNCHANGED <<toolVars, worker, inputs, req_url, preset, fallback_url, calls,
                   sign_call>>

\* generate_sxg_response up to the call of create_signed_exchange: the
\* payload is buffered and converted, the certificate origin derived, the
\* signer created and the payload headers transformed.
GenerateSxgResponse(t) ==
    /\ pc[t] = "gen_sxg"
    /\ \E transformed \in BOOLEAN :
        IF sxg_payload[t].stream = "reset"
        THEN /\ Return(t, Err(<<"error reading a body from connection">>))
             /\ UNCHANGED <<calls, sign_call>>
        ELSE IF sxg_payload[t].headers = "non-utf8"
        THEN /\ Return(t, Err(<<"header value is not utf8">>))
             /\ UNCHANGED <<calls, sign_call>>
        ELSE IF FallbackUrlError(fallback_url[t]) # <<>>
        THEN /\ Return(t, Err(FallbackUrlError(fallback_url[t])))
             /\ UNCHANGED <<calls, sign_call>>
        ELSE IF ~worker.signer_ok
        THEN /\ Call(t, "create_rust_signer")
             /\ Return(t, Err(<<"no signer">>))
             /\ UNCHANGED sign_call
        ELSE IF ~transformed
        THEN /\ calls' = [calls EXCEPT ![t] =
                   @ \o <<"create_rust_signer", "transform_payload_headers">>]
             /\ Return(t, Err(<<"invalid payload headers">>))
             /\ UNCHANGED sign_call
        ELSE /\ calls' = [calls EXCEPT ![t] =
                   @ \o <<"create_rust_signer", "transform_payload_headers",
                          "create_signed_exchange">>]
             /\ sign_call' = [sign_call EXCEPT ![t] =
                   SignParams(sxg_payload[t],
                              TransformPayloadHeaders(sxg_payload[t].headers),
                              fallback_url[t])]
             /\ Goto(t, "signer")
             /\ UNCHANGED outcome
    /\ UNCHANGED <<toolVars, worker, inputs, locals, proxy_call>>

\* SignerReturns serving the payload unsigned when signing failed.
SignerReturns_Unsigned(t) ==
    /\ pc[t] = "signer"
    /\ \/ Return(t, SxgResult(sign_call[t]))
       \/ Return(t, Ok(sxg_payload[t]))
    /\ UNCHANGED <<toolVars, worker, inputs, locals, calls, proxy_call, sign_call>>

\* generate_sxg_response: create_signed_exchange completes; its signed
\* exchange is the response, its error the error.
SignerReturns(t) ==
    /\ pc[t] = "signer"
    /\ \/ Return(t, SxgResult(sign_call[t]))
       \/ Return(t, Err(<<"signing failed">>))
    /\ UNCHANGED <<toolVars, worker, inputs, locals, calls, proxy_call, sign_call>>

\* The response has been written to the connection; the service is ready
\* for the connection's next request.
Finish(t) ==
    /\ pc[t] = "done"
    /\ Goto(t, "idle")
    /\ client_ip' = [client_ip EXCEPT ![t] = ""]
    /\ req' = [req EXCEPT ![t] = NoRequest]
    /\ backend' = [backend EXCEPT ![t] = <<>>]
    /\ req_url' = [req_url EXCEPT ![t] = NoUrl]
    /\ preset' = [preset EXCEPT ![t] = NoPreset]
    /\ fallback_url' = [fallback_url EXCEPT ![t] = NoUri]
    /\ sxg_payload' = [sxg_payload EXCEPT ![t] = NoResponse]
    /\ calls' = [calls EXCEPT ![t] = <<>>]
    /\ proxy_call' = [proxy_call EXCEPT ![t] = NoProxyCall]
    /\ sign_call' = [sign_call EXCEPT ![t] = NoParams]
    /\ result' = [result EXCEPT ![t] = NoResult]
    /\ response' = [response EXCEPT ![t] = NoResponse]
    /\ UNCHANGED <<toolVars, worker>>

\* One step of the handler of task t.
Step(t) ==
    \/ HandleStart(t)
    \/ PresetDirect(t)
    \/ PresetToBeSigned(t)
    \/ PresetNone(t)
    \/ TbsBodyRead(t)
    \/ NoneBodyRead(t)
    \/ BackendResponds(t)
    \/ GenerateSxgResponse(t)
    \/ SignerReturns(t)
    \/ Finish(t)

\* A request is accepted while no other is in flight.
AcceptAlone(t) ==
    /\ \A u \in Tasks : pc[u] = "idle"
    /\ Accept(t)

\* The server, its requests served one at a time.
Next == \E t \in Tasks : AcceptAlone(t) \/ Step(t)

Spec == Init /\ [][Next]_vars

\* The requests that arrive while others are in flight.
ConcTargets == {<<"/articles/foo">>}
ConcMethods == {"GET", "PUT"}
ConcBackends == {<<"https", ":", "//", "backend.example">>}

\* A request is accepted on an idle task, whatever the other tasks are doing
\* (one tokio task per connection).
AcceptConc(t) == AcceptFrom(t, ConcTargets, ConcMethods, ConcBackends)

\* The server, its requests interleaved at their await points.
ConcNext == \E t \in Tasks : AcceptConc(t) \/ Step(t)

ConcSpec == Init /\ [][ConcNext]_vars

---------------------------------------------------------------------------
(* The certificate-issuance helper                                         *)

GenerationSteps ==
    {"create_private_key_pem", "create_certificate_request_pem",
     "create_certificate"}

\* PathExists never seeing the file: the existence test left out.
PathExists_Never(fsys, path) == FALSE

\* Path::exists
PathExists(fsys, path) == fsys[path] # NoFile

\* What Command::output may give: the command cannot be started; it exits
\* with success and a PEM text on stdout; it exits with a failure status and
\* an empty stdout; it writes bytes that are not UTF-8.
CommandOutputs ==
    { NoOutput }
    \cup { [spawned |-> TRUE, success |-> TRUE, stdout |-> pem] : pem \in PemTexts }
    \cup { [spawned |-> TRUE, success |-> FALSE, stdout |-> ""],
           [spawned |-> TRUE, success |-> TRUE, stdout |-> "(non-utf8)"] }

CmdGoto(c, label) == cmd_pc' = [cmd_pc EXCEPT ![c] = label]

CmdReturn(c, ret) ==
    /\ cmd_ret' = [cmd_ret EXCEPT ![c] = ret]
    /\ CmdGoto(c, "returned")

\* A caller calls write_new_file with some content, or a generation step.
ToolCallOn(c, paths) ==
    /\ cmd_pc[c] = "idle"
    /\ \E path \in paths :
        /\ cmd_before' = [cmd_before EXCEPT ![c] = fs[path]]
        /\ \/ /\ \E content \in PemTexts :
                    cmd_out' = [cmd_out EXCEPT ![c] =
                        [spawned |-> FALSE, success |-> FALSE, stdout |-> content]]
              /\ cmd_call' = [cmd_call EXCEPT ![c] =
                    [op |-> "write_new_file", output_file |-> path]]
              /\ CmdGoto(c, "exists")
           \/ /\ \E op \in GenerationSteps :
                    cmd_call' = [cmd_call EXCEPT ![c] =
                        [op |-> op, output_file |-> path]]
              /\ CmdGoto(c, "execute")
              /\ UNCHANGED cmd_out
    /\ UNCHANGED <<serverVars, fs, cmd_ret>>

ToolCall(c) == ToolCallOn(c, Paths)

\* execute_and_parse_stdout: the command runs; its stdout is returned
\* whatever its exit status, unless it is not UTF-8.
Execute(c) ==
    /\ cmd_pc[c] = "execute"
    /\ \E out \in CommandOutputs :
        /\ cmd_out' = [cmd_out EXCEPT ![c] = out]
        /\ IF ~out.spawned
           THEN CmdReturn(c, [ok |-> FALSE, value |-> "",
                              err |-> "Failed to execute command"])
           ELSE IF out.stdout = "(non-utf8)"
           THEN CmdReturn(c, [ok |-> FALSE, value |-> "",
                              err |-> "The stdout contains non-utf8 bytes."])
           ELSE CmdGoto(c, "exists") /\ UNCHANGED cmd_ret
    /\ UNCHANGED <<serverVars, fs, cmd_call, cmd_before>>

\* write_new_file: the existence test.
CheckExists(c) ==
    /\ cmd_pc[c] = "exists"
    /\ IF PathExists(fs, cmd_call[c].output_file)
       THEN CmdReturn(c, [ok |-> FALSE, value |-> "",
                          err |-> "Cowardly refuse to overwrite"])
       ELSE CmdGoto(c, "write") /\ UNCHANGED cmd_ret
    /\ UNCHANGED <<serverVars, fs, cmd_call, cmd_before, cmd_out>>

\* write_new_file: std::fs::write creates the file or replaces its contents,
\* or fails and leaves the path as it was.
WriteFile(c) ==
    /\ cmd_pc[c] = "write"
    /\ \/ /\ fs' = [fs EXCEPT ![cmd_call[c].output_file] = cmd_out[c].stdout]
          /\ CmdReturn(c, [ok |-> TRUE, value |-> cmd_out[c].stdout, err |-> ""])
       \/ /\ CmdReturn(c, [ok |-> FALSE, value |-> "", err |-> "io error"])
          /\ UNCHANGED fs
    /\ UNCHANGED <<serverVars, cmd_call, cmd_before, cmd_out>>

\* The caller has its result and may call again.
ToolDone(c) ==
    /\ cmd_pc[c] = "returned"
    /\ CmdGoto(c, "idle")
    /\ cmd_call' = [cmd_call EXCEPT ![c] = NoCall]
    /\ cmd_before' = [cmd_before EXCEPT ![c] = NoFile]
    /\ cmd_out' = [cmd_out EXCEPT ![c] = NoOutput]
    /\ cmd_ret' = [cmd_ret EXCEPT ![c] = NoReturn]
    /\ UNCHANGED <<serverVars, fs>>

ToolStep(c) ==
    \/ Execute(c)
    \/ CheckExists(c)
    \/ WriteFile(c)
    \/ ToolDone(c)

\* A call is made while no other call is in progress.
ToolCallAlone(c) ==
    /\ \A d \in Callers : cmd_pc[d] = "idle"
    /\ ToolCall(c)

\* The helper, its calls made one after the other.
ToolsNext == \E c \in Callers : ToolCallAlone(c) \/ ToolStep(c)

ToolsSpec == Init /\ [][ToolsNext]_vars

\* The path the callers that run at the same time all write to.
ConcPaths == {"privkey.pem"}

\* A caller calls while other calls are in progress (two processes of the
\* helper, or two threads of a program using the library).
ToolCallConc(c) == ToolCallOn(c, ConcPaths)

\* The helper, the steps of its callers interleaved at the system calls.
ToolsConcNext == \E c \in Callers : ToolCallConc(c) \/ ToolStep(c)

ToolsConcSpec == Init /\ [][ToolsConcNext]_vars
---------------------------------------------------------------------------
(* Properties of the request pipeline, checked under Spec                  *)

Done(t) == pc[t] = "done"

Signed(t) == sign_call[t] # NoParams

Count(seq, x) == Cardinality({i \in 1 .. Len(seq) : seq[i] = x})

\* C1: when the resolver returns Direct(response), the response handle
\* returns has exactly the resolver's status and body; a response handle
\* cannot convert is returned by nobody (handle fails).
C1_DirectIdentity ==
    \A t \in Tasks :
        (Done(t) /\ preset[t].kind = "Direct") =>
            IF ValidStatus(preset[t].response.status)
            THEN /\ result[t].ok
                 /\ response[t].status = preset[t].response.status
                 /\ response[t].body = preset[t].response.body
            ELSE ~result[t].ok

\* A Direct answer with a status other than 200 has been returned.
C1_Witness ==
    \E t \in Tasks :
        /\ Done(t) /\ preset[t].kind = "Direct" /\ result[t].ok
        /\ response[t].status = 404
        /\ response[t].body.text = <<"unknown certificate">>

\* C2: in the None branch the fallback URL handed to the signing step, as
\* the Uri given to generate_sxg_response and as the text given to the
\* signer, has the signed-domain host as its authority, and neither the
\* authority of the backend origin nor that of the backend URL, whatever the
\* backend, the request URI and the backend's response.
C2_FallbackAuthority ==
    \A t \in Tasks :
        preset[t].kind = "None" =>
            /\ fallback_url[t] # NoUri =>
                /\ fallback_url[t].authority = HtmlHost
                /\ fallback_url[t].authority # UrlParse(backend[t]).authority
                /\ fallback_url[t].authority #
                       BackendUrl(backend[t], req[t].uri).authority
            /\ pc[t] \in {"gen_sxg", "signer"} => fallback_url[t] # NoUri
            /\ Signed(t) =>
                UriFromStr(sign_call[t].fallback_url).authority = HtmlHost

\* The signer was called in the None branch for a request whose target names
\* another host, after the backend answered with a redirect.
C2_Witness ==
    \E t \in Tasks :
        /\ preset[t].kind = "None" /\ Signed(t)
        /\ BackendUrl(backend[t], req[t].uri).authority = "evil.example"
        /\ sxg_payload[t].status = 301

\* C3: the certificate origin passed to the signer is scheme://authority of
\* the fallback URL passed with it, so it is a function of that URL alone and
\* the same for every backend address.
C3_CertOrigin ==
    \A t \in Tasks :
        Signed(t) =>
            LET url == UriFromStr(sign_call[t].fallback_url)
            IN  /\ url # NoUri
                /\ sign_call[t].cert_origin =
                       <<url.scheme, ":", "//", url.authority>>
                /\ url.scheme = fallback_url[t].scheme
                /\ url.authority = fallback_url[t].authority

\* The signer was called with an http fallback URL derived from an http
\* backend.
C3_Witness ==
    \E t \in Tasks :
        /\ Signed(t) /\ preset[t].kind = "None"
        /\ backend[t] = <<"http", ":", "//", "backend.example">>
        /\ sign_call[t].cert_origin = <<"http", ":", "//", "pub.example">>

\* C4: a request has no response while its handler runs and exactly one when
\* it ends; if handle failed, at whatever step, it is a 500 whose body is the
\* debug rendering of the error; otherwise it is the Direct preset response
\* or the signed exchange the signer returned.  A worker that cannot create
\* its signer answers the preset lookup with None, and the request fails at
\* the latest when the signer is created for signing.
C4_SingleErrorPath ==
    \A t \in Tasks :
        /\ ~Done(t) => (response[t] = NoResponse /\ result[t] = NoResult)
        /\ Done(t) =>
            /\ response[t] # NoResponse
            /\ result[t] # NoResult
            /\ ~worker.signer_ok => ~result[t].ok
            /\ ~result[t].ok =>
                /\ response[t].status = 500
                /\ response[t].body = PlainBody(<<"{:?}">> \o result[t].err)
                /\ result[t].err # <<>>
            /\ result[t].ok =>
                \/ /\ preset[t].kind = "Direct"
                   /\ response[t] = FromHttpResponse(preset[t].response)
                \/ /\ preset[t].kind \in {"ToBeSigned", "None"}
                   /\ Signed(t)
                   /\ response[t].status = 200
                   /\ response[t].body = [text |-> <<"sxg1-b3">>, sxg |-> sign_call[t]]

\* A request whose signing failed has ended with the 500.
C4_Witness ==
    \E t \in Tasks :
        /\ Done(t) /\ result[t].err = <<"signing failed">>
        /\ response[t].status = 500

\* C5: when PROXY_CLIENT.call fails, the request ends with a 500 carrying
\* the rendering of that error, the signer was not invoked, the response
\* holds no signed exchange, and the backend was contacted once.
C5_ProxyFailure ==
    \A t \in Tasks :
        proxy_call[t].outcome = "error" =>
            /\ Done(t)
            /\ response[t].status = 500
            /\ response[t].body = PlainBody(<<"{:?}", "{:?}", "connection reset">>)
            /\ ~Signed(t)
            /\ Count(calls[t], "create_signed_exchange") = 0
            /\ Count(calls[t], "transform_payload_headers") = 0
            /\ response[t].body.sxg = NoParams
            /\ Count(calls[t], "proxy_call") = 1

\* A backend call has failed.
C5_Witness ==
    \E t \in Tasks :
        /\ proxy_call[t].outcome = "error" /\ Done(t)
        /\ proxy_call[t].client_ip \in ClientIps

\* C6: when the backend answers with a status other than 200, the signing
\* call is bypassed or fails: the client gets no signed exchange with inner
\* status 200 around the backend's body.
C6_NonOkNotSigned ==
    \A t \in Tasks :
        (Done(t) /\ proxy_call[t].outcome = "response"
                 /\ sxg_payload[t].status # 200) =>
            /\ ~Signed(t) \/ ~result[t].ok
            /\ ~(/\ response[t].body.sxg.status_code = 200
                 /\ response[t].body.sxg.payload_body = sxg_payload[t].body.text)

\* C7: every call of create_signed_exchange passes status_code = 200 and
\* skip_process_link = false, whatever the payload's status, the branch and
\* the request.
C7_FixedStatusAndLink ==
    \A t \in Tasks :
        Signed(t) =>
            /\ sign_call[t].status_code = 200
            /\ sign_call[t].skip_process_link = FALSE

\* The signer was called for a payload whose own status is not 200.
C7_Witness ==
    \E t \in Tasks :
        /\ Signed(t)
        /\ sxg_payload[t].status = 404
        /\ sign_call[t].payload_body = <<"no such page">>

\* C9: serve_preset_content is the first collaborator called; until it has
\* returned nothing else is called; and what is called afterwards depends on
\* its result alone: nothing after Direct, the AcceptsSxg validation and the
\* signer after ToBeSigned, the Origin Resolver, the PrefersSxg filter, the
\* backend and the signer after None.
C9_PresetFirst ==
    \A t \in Tasks :
        /\ calls[t] # <<>> => calls[t][1] = "serve_preset_content"
        /\ Count(calls[t], "serve_preset_content") <= 1
        /\ preset[t].kind = "" => Len(calls[t]) <= 1
        /\ pc[t] = "preset" => preset[t].kind = ""
        /\ preset[t].kind = "Direct" =>
            /\ Done(t)
            /\ calls[t] = <<"serve_preset_content">>
        /\ preset[t].kind = "ToBeSigned" =>
            /\ pc[t] \in {"tbs_body", "gen_sxg", "signer", "done"}
            /\ Count(calls[t], "get_fallback_url") = 0
            /\ Count(calls[t], "transform_request_headers(PrefersSxg)") = 0
            /\ Count(calls[t], "proxy_call") = 0
        /\ preset[t].kind = "None" =>
            /\ pc[t] \in {"none_body", "backend", "gen_sxg", "signer", "done"}
            /\ Count(calls[t], "transform_request_headers(AcceptsSxg)") = 0
        /\ pc[t] = "tbs_body" => preset[t].kind = "ToBeSigned"
        /\ pc[t] \in {"none_body", "backend"} => preset[t].kind = "None"
        /\ pc[t] \in {"gen_sxg", "signer"} => preset[t].kind \in {"ToBeSigned", "None"}

\* The backend has been called, after the preset lookup and the rest.
C9_Witness ==
    \E t \in Tasks :
        /\ pc[t] = "backend"
        /\ calls[t] = <<"serve_preset_content", "get_fallback_url",
                        "transform_request_headers(PrefersSxg)", "proxy_call">>

\* C10: in the ToBeSigned and None branches a request ends with a 500 or
\* with the signer's output; when the payload headers are refused or the
\* signing fails it ends with the 500, and never with the unsigned payload.
C10_NoUnsignedFallback ==
    \A t \in Tasks :
        (Done(t) /\ preset[t].kind \in {"ToBeSigned", "None"}) =>
            /\ response[t].status # 500 =>
                /\ Signed(t)
                /\ response[t] = SxgResult(sign_call[t]).response
                /\ Count(calls[t], "create_signed_exchange") = 1
            /\ result[t].err \in {<<"invalid payload headers">>, <<"signing failed">>} =>
                response[t].status = 500
            /\ response[t].body.text # sxg_payload[t].body.text
            /\ (Count(calls[t], "transform_payload_headers") = 1
                    /\ Count(calls[t], "create_signed_exchange") = 0) =>
                response[t].status = 500

\* The payload headers of a backend response were refused and the request
\* ended with the 500.
C10_Witness ==
    \E t \in Tasks :
        /\ Done(t) /\ preset[t].kind = "None"
        /\ sxg_payload[t].status = 200
        /\ result[t].err = <<"invalid payload headers">>
        /\ response[t].status = 500

\* C11: only GET and POST requests are forwarded: a request with another
\* method never reaches PROXY_CLIENT.call; in the None branch it is refused
\* with the 500 when it is converted, before the header policy and the
\* backend call, and the method forwarded is the request's own.
C11_OnlyGetAndPost ==
    \A t \in Tasks :
        /\ (proxy_call[t] # NoProxyCall \/ Count(calls[t], "proxy_call") > 0) =>
            /\ req[t].method \in {"GET", "POST"}
            /\ proxy_call[t].method = req[t].method
        /\ (req[t].method \notin {"GET", "POST", ""}) =>
            /\ pc[t] \notin {"backend", "gen_sxg", "signer"}
                 \/ preset[t].kind # "None"
            /\ (Done(t) /\ preset[t].kind = "None") =>
                /\ response[t].status = 500
                /\ Count(calls[t], "transform_request_headers(PrefersSxg)") = 0

\* A PUT request went down the None branch and was refused for its method.
C11_Witness ==
    \E t \in Tasks :
        /\ Done(t) /\ preset[t].kind = "None"
        /\ req[t].method = "PUT"
        /\ result[t].err = <<"unsupported method">>
        /\ proxy_call[t] = NoProxyCall

\* All that the server holds for the request of task u.
TaskState(u) ==
    <<pc[u], client_ip[u], req[u], backend[u], req_url[u], preset[u],
      fallback_url[u], sxg_payload[u], calls[u], proxy_call[u], sign_call[u],
      result[u], response[u]>>

\* The outcome of task t is the one its own lookup, backend and signer gave.
OwnOutcome(t) ==
    /\ response[t] = HandleOrError(result[t])
    /\ result[t].ok =>
         \/ preset[t].kind = "Direct" /\ result[t] = DirectResult(preset[t].response)
         \/ Signed(t) /\ result[t] = SxgResult(sign_call[t])
    /\ ~result[t].ok => response[t].status = 500

\* C12: requests that interleave are independent: no step changes WORKER,
\* every step changes the state of one task only (so a failure of one
\* request leaves every other request in flight as it was), a finished
\* request carries the outcome of its own collaborators' results, and an
\* idle task accepts the next request whatever happened before.
C12_Independent ==
    /\ [](\A t \in Tasks : Done(t) => OwnOutcome(t))
    /\ [](\A t \in Tasks : pc[t] = "idle" => ENABLED AcceptConc(t))
    /\ [][/\ worker' = worker
          /\ \E t \in Tasks :
                \A u \in Tasks \ {t} : TaskState(u)' = TaskState(u)]_vars

\* One request failed while another, in flight with it, was signed.
C12_Witness ==
    \E t, u \in Tasks :
        /\ t # u
        /\ Done(t) /\ ~result[t].ok /\ response[t].status = 500
        /\ Done(u) /\ result[u].ok /\ Signed(u)
        /\ proxy_call[u].outcome = "response"

\* C13: in the None branch the path and query of the request are preserved
\* end to end: the backend is fetched at the backend origin followed by the
\* request's path and query, the fallback URL is that same path and query
\* under the signed-domain host, and the certificate origin is the
\* signed-domain host under the backend's scheme (https://pub.example for
\* https://backend.example).
C13_PathPreserved ==
    \A t \in Tasks :
        (preset[t].kind = "None" /\ proxy_call[t] # NoProxyCall) =>
            /\ ForwardUri(proxy_call[t]) = backend[t] \o req[t].uri.path
            /\ fallback_url[t] =
                 [scheme |-> UrlParse(backend[t]).scheme,
                  authority |-> HtmlHost,
                  path |-> req[t].uri.path]
            /\ Signed(t) =>
                 sign_call[t].cert_origin =
                     <<UrlParse(backend[t]).scheme, ":", "//", HtmlHost>>

\* The position of the first x in seq; 0 if there is none.
IndexOf(seq, x) ==
    IF Count(seq, x) = 0 THEN 0
    ELSE CHOOSE i \in 1 .. Len(seq) :
            seq[i] = x /\ \A j \in 1 .. (i - 1) : seq[j] # x

\* C14: a request takes exactly one of the three branches.  Direct: neither
\* the backend nor create_signed_exchange is called.  ToBeSigned: the backend
\* is not called, create_signed_exchange at most once.  None: the backend at
\* most once, create_signed_exchange at most once and only after the
\* backend's response has arrived.
C14_OneStrategy ==
    \A t \in Tasks :
        LET backend_calls == Count(calls[t], "proxy_call")
            signer_calls == Count(calls[t], "create_signed_exchange")
        IN  /\ preset[t].kind \in {"", "Direct", "ToBeSigned", "None"}
            /\ (preset[t].kind = "" /\ ~Done(t)) =>
                 backend_calls = 0 /\ signer_calls = 0
            /\ (proxy_call[t] # NoProxyCall) <=> (backend_calls > 0)
            /\ Signed(t) <=> (signer_calls > 0)
            /\ preset[t].kind = "Direct" =>
                 backend_calls = 0 /\ signer_calls = 0 /\ Done(t)
            /\ preset[t].kind = "ToBeSigned" =>
                 backend_calls = 0 /\ signer_calls <= 1
            /\ preset[t].kind = "None" =>
                 /\ backend_calls <= 1 /\ signer_calls <= 1
                 /\ signer_calls = 1 =>
                      /\ backend_calls = 1
                      /\ proxy_call[t].outcome = "response"
                      /\ IndexOf(calls[t], "proxy_call")
                           < IndexOf(calls[t], "create_signed_exchange")

\* A None request whose backend answered and whose payload was signed.
C14_Witness ==
    \E t \in Tasks :
        /\ Done(t) /\ preset[t].kind = "None" /\ result[t].ok
        /\ Count(calls[t], "proxy_call") = 1
        /\ Count(calls[t], "create_signed_exchange") = 1

\* The errors of reading, converting and validating the request.
RequestErrors ==
    { <<"error reading a body from connection">>,
      <<"unsupported method">>,
      <<"invalid request headers">> }

\* C15: in the ToBeSigned branch what is signed is the resolver's: the
\* fallback URL is the resolver's URL and the payload the resolver's
\* response.  The request headers pass transform_request_headers with
\* AcceptsSxg before generate_sxg_response is entered and its result is used
\* nowhere; when reading, converting or validating the request fails the
\* answer is the 500 and create_signed_exchange is not called.
C15_ToBeSigned ==
    \A t \in Tasks :
        preset[t].kind = "ToBeSigned" =>
            /\ Signed(t) =>
                 /\ sign_call[t].fallback_url = preset[t].url
                 /\ sign_call[t].payload_body = preset[t].response.body.text
                 /\ sign_call[t].payload_headers =
                        TransformPayloadHeaders(preset[t].response.headers)
            /\ pc[t] \in {"gen_sxg", "signer"} \/ Signed(t) =>
                 /\ KnownMethod(req[t].method)
                 /\ Len(calls[t]) >= 2
                 /\ calls[t][2] = "transform_request_headers(AcceptsSxg)"
                 /\ Count(calls[t], "transform_request_headers(AcceptsSxg)") = 1
            /\ Count(calls[t], "transform_request_headers(PrefersSxg)") = 0
            /\ (Done(t) /\ ~result[t].ok /\ result[t].err \in RequestErrors) =>
                 /\ response[t].status = 500
                 /\ ~Signed(t)
                 /\ Count(calls[t], "create_signed_exchange") = 0

\* A ToBeSigned request was refused by the AcceptsSxg validation.
C15_Witness ==
    \E t \in Tasks :
        /\ Done(t) /\ preset[t].kind = "ToBeSigned"
        /\ result[t].err = <<"invalid request headers">>
        /\ calls[t] = <<"serve_preset_content",
                        "transform_request_headers(AcceptsSxg)">>

\* The collaborator calls of a None request, in the order of the code.
NoneOrder ==
    <<"serve_preset_content", "get_fallback_url",
      "transform_request_headers(PrefersSxg)", "proxy_call",
      "create_rust_signer", "transform_payload_headers",
      "create_signed_exchange">>

IsPrefix(s, full) == Len(s) <= Len(full) /\ s = SubSeq(full, 1, Len(s))

\* C16: in the None branch the steps run in the order backend URL, Origin
\* Resolver, buffering of the request, Header Policy with PrefersSxg, proxy
\* call; the proxy call carries the filtered headers, the request's method
\* and body and the client's address; when the Origin Resolver or the
\* Header Policy fails the backend is not called.
C16_NoneOrder ==
    \A t \in Tasks :
        preset[t].kind = "None" =>
            /\ IsPrefix(calls[t], NoneOrder)
            /\ Len(calls[t]) >= 2 => BackendUrl(backend[t], req[t].uri) # NoUrl
            /\ (/\ Done(t) /\ proxy_call[t] = NoProxyCall
                /\ result[t].err = <<"error reading a body from connection">>) =>
                 calls[t] = SubSeq(NoneOrder, 1, 2)
            /\ proxy_call[t] # NoProxyCall =>
                 /\ fallback_url[t] # NoUri
                 /\ proxy_call[t].headers =
                        TransformRequestHeaders(req[t].headers, "PrefersSxg")
                 /\ proxy_call[t].method = req[t].method
                 /\ proxy_call[t].body = req[t].body
                 /\ proxy_call[t].client_ip = client_ip[t]
                 /\ proxy_call[t].forward_url = backend[t]
            /\ (Done(t) /\ result[t].err \in {<<"Failed to set html_host">>,
                                              <<"invalid request headers">>}) =>
                 /\ proxy_call[t] = NoProxyCall
                 /\ Count(calls[t], "proxy_call") = 0
                 /\ response[t].status = 500

\* The backend was called for a None request after all four earlier steps.
C16_Witness ==
    \E t \in Tasks :
        /\ preset[t].kind = "None" /\ pc[t] = "backend"
        /\ calls[t] = SubSeq(NoneOrder, 1, 4)
        /\ proxy_call[t].headers = <<"PrefersSxg", "client-headers">>
        /\ proxy_call[t].client_ip \in ClientIps

\* C17: the canonical request URL passed to serve_preset_content has the
\* scheme https and the signed-domain host as its authority, whatever the
\* form of the request's URI.
C17_CanonicalUnderHtmlHost ==
    \A t \in Tasks :
        Count(calls[t], "serve_preset_content") > 0 =>
            /\ req_url[t].scheme = "https"
            /\ req_url[t].authority = worker.html_host

\* C18: a fallback URL without scheme or without authority never reaches
\* create_signed_exchange: generate_sxg_response fails before the signer is
\* created and the request ends with the 500.
C18_IncompleteFallbackUrl ==
    \A t \in Tasks :
        (/\ fallback_url[t] # NoUri
         /\ fallback_url[t].scheme = "" \/ fallback_url[t].authority = "") =>
            /\ preset[t].kind = "ToBeSigned"
            /\ ~Signed(t) /\ pc[t] # "signer"
            /\ Count(calls[t], "create_rust_signer") = 0
            /\ Count(calls[t], "create_signed_exchange") = 0
            /\ Done(t) => ~result[t].ok /\ response[t].status = 500

\* generate_sxg_response refused the resolver's URL "/articles/foo".
C18_Witness ==
    \E t \in Tasks :
        /\ Done(t) /\ preset[t].kind = "ToBeSigned"
        /\ preset[t].url = <<"/articles/foo">>
        /\ fallback_url[t].scheme = ""
        /\ result[t].err = <<"fallback url missing scheme">>
        /\ response[t].status = 500

---------------------------------------------------------------------------
(* Properties of the certificate-issuance helper, checked under ToolsSpec  *)

\* C8: a call of write_new_file or of a generation step whose output path
\* exists when the call is made returns an error and leaves the file's
\* contents as they were, at every point of the call; so a generation step
\* called twice with one output path fails the second time.
C8_NeverOverwrites ==
    \A c \in Callers :
        (cmd_pc[c] # "idle" /\ cmd_before[c] # NoFile) =>
            /\ fs[cmd_call[c].output_file] = cmd_before[c]
            /\ cmd_pc[c] # "write"
            /\ cmd_pc[c] = "returned" => ~cmd_ret[c].ok

\* create_private_key_pem was called on a path that held a key; the command
\* produced another key and the call refused to write it.
C8_Witness ==
    \E c \in Callers :
        /\ cmd_pc[c] = "returned"
        /\ cmd_call[c].op = "create_private_key_pem"
        /\ cmd_before[c] = "pem-a"
        /\ cmd_out[c].stdout = "pem-b"
        /\ cmd_ret[c].err = "Cowardly refuse to overwrite"
        /\ fs[cmd_call[c].output_file] = "pem-a"

\* C20: a generation step creates its output file only when its command
\* succeeded: when the command ran and exited with a failure status the step
\* returns an error and the output path is as it was before the call.
C20_OnlyOnSuccess ==
    \A c \in Callers :
        (/\ cmd_pc[c] = "returned"
         /\ cmd_call[c].op \in GenerationSteps
         /\ cmd_out[c].spawned /\ ~cmd_out[c].success) =>
            /\ ~cmd_ret[c].ok
            /\ fs[cmd_call[c].output_file] = cmd_before[c]

---------------------------------------------------------------------------
(* Properties of the helper under concurrent callers, checked under        *)
(* ToolsConcSpec                                                           *)

\* C19: write_new_file does not overwrite under concurrency: of two calls
\* on the same path that did not exist when they were made at most one
\* returns Ok, and the file holds what the call that returned Ok wrote.
C19_NoOverwriteConcurrent ==
    \A c, d \in Callers :
        (/\ c # d
         /\ cmd_pc[c] = "returned" /\ cmd_ret[c].ok
         /\ cmd_before[c] = NoFile /\ cmd_before[d] = NoFile
         /\ cmd_call[d].output_file = cmd_call[c].output_file) =>
            /\ cmd_pc[d] = "returned" => ~cmd_ret[d].ok
            /\ fs[cmd_call[c].output_file] = cmd_out[c].stdout
====
